---- MODULE Spec2Model ----
(***************************************************************************)
(* Model of the time tracker tt.py: the persisted day file (current timer  *)
(* and history), the persisted configuration (customers, shortcuts) and    *)
(* the command handlers that load, change and save them.                   *)
(*                                                                         *)
(* Python strings are sequences of one-character strings, so that join,    *)
(* strip, lower, isdigit and int are computed, not assumed.  None is the   *)
(* empty sequence and a present value x is <<x>>.  Instants and durations  *)
(* are counted in ticks, TicksPerSecond ticks to the second, so that the   *)
(* float returned by time.time() can fall between two whole seconds.       *)
(* Writes to the file system are taken to succeed.                         *)
(***************************************************************************)
EXTENDS Integers, Sequences, FiniteSets, TLC

VARIABLES file, config, argv, cmd, args, msg, req, tstop, tstart, saved, out,
          steps

vars ==
    <<file, config, argv, cmd, args, msg, req, tstop, tstart, saved, out,
      steps>>

(***************************************************************************)
(* Bounds of the exploration.                                              *)
(***************************************************************************)
MaxSteps == 2
TicksPerSecond == 2
MaxSeconds == 3700

(***************************************************************************)
(* Optional values.                                                        *)
(***************************************************************************)
None == <<>>
Some(x) == <<x>>
IsSome(o) == o # <<>>
Get(o) == o[1]

(***************************************************************************)
(* Strings.                                                                *)
(***************************************************************************)
Digits == <<"0", "1", "2", "3", "4", "5", "6", "7", "8", "9">>
UpperCase == <<"A", "B", "C", "D", "E", "F", "G", "H", "I", "J", "K", "L", "M",
               "N", "O", "P", "Q", "R", "S", "T", "U", "V", "W", "X", "Y", "Z">>
LowerCase == <<"a", "b", "c", "d", "e", "f", "g", "h", "i", "j", "k", "l", "m",
               "n", "o", "p", "q", "r", "s", "t", "u", "v", "w", "x", "y", "z">>
Whitespace == {" "}

Truthy(s) == s # <<>>

IndexOf(seq, c) == CHOOSE i \in 1..Len(seq) : seq[i] = c

IsDigitChar(c) == \E i \in 1..Len(Digits) : Digits[i] = c

isdigit(s) == s # <<>> /\ \A i \in 1..Len(s) : IsDigitChar(s[i])

RECURSIVE int(_)
int(s) ==
    IF s = <<>> THEN 0
    ELSE 10 * int(SubSeq(s, 1, Len(s) - 1)) + (IndexOf(Digits, s[Len(s)]) - 1)

LowerChar(c) ==
    IF \E i \in 1..Len(UpperCase) : UpperCase[i] = c
    THEN LowerCase[IndexOf(UpperCase, c)]
    ELSE c

lower(s) == [i \in 1..Len(s) |-> LowerChar(s[i])]

RECURSIVE lstrip(_)
lstrip(s) ==
    IF s # <<>> /\ Head(s) \in Whitespace THEN lstrip(Tail(s)) ELSE s

RECURSIVE rstrip(_)
rstrip(s) ==
    IF s # <<>> /\ s[Len(s)] \in Whitespace
    THEN rstrip(SubSeq(s, 1, Len(s) - 1))
    ELSE s

strip(s) == rstrip(lstrip(s))

RECURSIVE join(_, _)
join(sep, list) ==
    IF list = <<>> THEN <<>>
    ELSE IF Len(list) = 1 THEN list[1]
    ELSE list[1] \o sep \o join(sep, Tail(list))

startswith(s, c) == s # <<>> /\ s[1] = c

Rest(list, n) == SubSeq(list, n + 1, Len(list))

(***************************************************************************)
(* Time.  Sec(n) is n whole seconds; a value is a whole number of seconds  *)
(* when it is a multiple of TicksPerSecond.                                *)
(***************************************************************************)
Sec(n) == n * TicksPerSecond
IsWholeSeconds(t) == t % TicksPerSecond = 0

CeilDiv(a, b) == IF a % b = 0 THEN a \div b ELSE (a \div b) + 1

round_seconds_down(seconds) ==
    IF seconds <= 0 THEN 0
    ELSE LET minutesDen == TicksPerSecond * 60
             blocks == seconds \div (minutesDen * 15)
             rounded_minutes == blocks * 15
         IN  Sec(rounded_minutes * 60)

round_seconds_to_15min(seconds) ==
    IF seconds <= 0 THEN 0
    ELSE LET minutesDen == TicksPerSecond * 60
             blocks == CeilDiv(seconds, minutesDen * 15)
             rounded_minutes == blocks * 15
         IN  Sec(rounded_minutes * 60)

get_formatted_duration_rounded(seconds) ==
    LET m == (seconds + Sec(30)) \div Sec(60)
    IN  <<m \div 60, m % 60>>

get_formatted_duration(seconds) ==
    LET m == seconds \div Sec(60)
    IN  <<m \div 60, m % 60>>

strftime_HM(t) ==
    LET minuteOfDay == ((t \div TicksPerSecond) \div 60) % 1440
    IN  <<minuteOfDay \div 60, minuteOfDay % 60>>

(***************************************************************************)
(* Persistence.                                                            *)
(***************************************************************************)
NoFile == [exists |-> FALSE]
DefaultData == [current |-> None, history |-> <<>>]
EmptyDict == [k \in {} |-> {}]
DefaultConfig == [customers |-> <<>>, shortcuts |-> EmptyDict]

DataOnDisk(d) == [exists |-> TRUE, corrupt |-> FALSE, content |-> d]
(* A file that cannot be read as JSON is described by the exception that   *)
(* open() or json.load() raises on it: IOError (a directory, no            *)
(* permission), JSONDecodeError (text that is not JSON) or                 *)
(* UnicodeDecodeError (bytes that are not text).                           *)
ReadErrors == {"IOError", "JSONDecodeError", "UnicodeDecodeError"}
Unreadable(error) == [exists |-> TRUE, corrupt |-> TRUE, error |-> error]
CorruptFile == Unreadable("JSONDecodeError")

Caught == {"JSONDecodeError", "IOError"}

load_json_raises(f) == f.exists /\ f.corrupt /\ f.error \notin Caught

load_json_warns(f) == f.exists /\ f.corrupt /\ f.error \in Caught

load_json(f, default) ==
    IF ~f.exists THEN default
    ELSE IF f.corrupt THEN default
    ELSE f.content

save_json(d) == DataOnDisk(d)

(***************************************************************************)
(* Timer logic.                                                            *)
(***************************************************************************)
Elapsed_unclamped(start_time, end_time) == end_time - start_time

Elapsed(start_time, end_time) ==
    LET raw_duration == end_time - start_time
    IN  IF raw_duration < 0 THEN 0 ELSE raw_duration

MakeEntry(c, raw_duration, billed_duration, notes, end_time) ==
    [customer |-> c.customer,
     project |-> c.project,
     duration_seconds |-> billed_duration,
     raw_seconds |-> raw_duration,
     notes |-> notes,
     start_str |-> strftime_HM(c.start_timestamp),
     end_str |-> strftime_HM(end_time)]

Entry_without_notes(c, end_time) ==
    LET raw_duration == Elapsed(c.start_timestamp, end_time)
    IN  MakeEntry(c, raw_duration, round_seconds_to_15min(raw_duration),
                  <<>>, end_time)

Entry(c, end_time) ==
    LET raw_duration == Elapsed(c.start_timestamp, end_time)
        billed_duration == round_seconds_to_15min(raw_duration)
        notes == c.notes
    IN  MakeEntry(c, raw_duration, billed_duration, notes, end_time)

stop_current_prepends(data, end_time) ==
    IF IsSome(data.current)
    THEN [data |-> [current |-> None,
                    history |-> <<Entry(Get(data.current), end_time)>>
                                    \o data.history],
          stopped |-> TRUE]
    ELSE [data |-> data, stopped |-> FALSE]

stop_current(data, end_time) ==
    IF IsSome(data.current)
    THEN [data |-> [current |-> None,
                    history |-> Append(data.history,
                                       Entry(Get(data.current), end_time))],
          stopped |-> TRUE]
    ELSE [data |-> data, stopped |-> FALSE]

(***************************************************************************)
(* Interactive input: the lines typed at the prompts of one command, in    *)
(* order.  A token is a typed line or Ctrl-C; reading past the last token  *)
(* is end of input.                                                        *)
(***************************************************************************)
Line(s) == [interrupt |-> FALSE, line |-> s]
Interrupt == [interrupt |-> TRUE]
AtEOF(inp, k) == k > Len(inp)

select_from_list(items, inp, k) ==
    IF AtEOF(inp, k) THEN [kind |-> "crash"]
    ELSE IF inp[k].interrupt THEN [kind |-> "exit"]
    ELSE LET choice == strip(inp[k].line)
         IN  IF isdigit(choice) /\ Len(choice) < 10
             THEN LET idx == int(choice) - 1
                  IN  IF items # <<>> /\ 0 <= idx /\ idx < Len(items)
                      THEN [kind |-> "item", val |-> items[idx + 1]]
                      ELSE [kind |-> "none"]
             ELSE IF Truthy(choice)
             THEN [kind |-> "text", val |-> choice]
             ELSE [kind |-> "none"]

Resolved(customer, project, note) ==
    [kind |-> "ok", customer |-> customer, project |-> project, note |-> note]

PromptProjectName(customer_name, inp, k) ==
    IF AtEOF(inp, k) \/ inp[k].interrupt THEN [kind |-> "crash"]
    ELSE LET proj_selection == strip(inp[k].line)
         IN  IF ~Truthy(proj_selection) THEN [kind |-> "exit"]
             ELSE Resolved(Some(customer_name), Some(proj_selection), None)

SelectProject(cust_obj, inp, k) ==
    LET sel == select_from_list(cust_obj.projects, inp, k)
    IN  IF sel.kind \in {"crash", "exit"} THEN [kind |-> sel.kind]
        ELSE IF sel.kind = "none" THEN Resolved(Some(cust_obj.name), None, None)
        ELSE Resolved(Some(cust_obj.name), Some(sel.val), None)

get_customer_and_project(a, cfgFile, inp) ==
    LET customers == load_json(cfgFile, DefaultConfig).customers
    IN  IF Len(a) = 0
        THEN LET cust_selection == select_from_list(customers, inp, 1)
             IN  IF cust_selection.kind = "item"
                 THEN SelectProject(cust_selection.val, inp, 2)
                 ELSE IF cust_selection.kind = "text"
                 THEN PromptProjectName(cust_selection.val, inp, 2)
                 ELSE IF cust_selection.kind = "crash" THEN [kind |-> "crash"]
                 ELSE [kind |-> "exit"]
        ELSE IF Len(a) = 1
        THEN IF isdigit(a[1])
             THEN LET idx == int(a[1]) - 1
                  IN  IF 0 <= idx /\ idx < Len(customers)
                      THEN SelectProject(customers[idx + 1], inp, 1)
                      ELSE [kind |-> "exit"]
             ELSE PromptProjectName(a[1], inp, 1)
        ELSE LET raw_cust == a[1]
                 raw_proj == a[2]
                 note == IF Len(a) > 2 THEN Some(join(<<" ">>, Rest(a, 2))) ELSE None
             IN  IF isdigit(raw_cust)
                 THEN LET idx == int(raw_cust) - 1
                      IN  IF 0 <= idx /\ idx < Len(customers)
                          THEN LET cust_obj == customers[idx + 1]
                                   p_idx == int(raw_proj) - 1
                               IN  IF isdigit(raw_proj) /\ 0 <= p_idx
                                      /\ p_idx < Len(cust_obj.projects)
                                   THEN Resolved(Some(cust_obj.name),
                                                 Some(cust_obj.projects[p_idx + 1]), note)
                                   ELSE Resolved(Some(cust_obj.name), Some(raw_proj), note)
                          ELSE Resolved(Some(raw_cust), Some(raw_proj), note)
                 ELSE Resolved(Some(raw_cust), Some(raw_proj), note)

(***************************************************************************)
(* Commands.  Each returns the day file it leaves on disk and what it      *)
(* reported: msg is the message printed, req the customer, project and     *)
(* note the start was resolved to, tstop and tstart the clock readings     *)
(* taken to end a session and to begin one, saved whether the day file     *)
(* was written.                                                            *)
(***************************************************************************)
Outcome(f, m, r, ts, tb, sv) ==
    [file |-> f, msg |-> m, req |-> r, tstop |-> ts, tstart |-> tb, saved |-> sv]

Raised(dataFile) == Outcome(dataFile, "crash", None, None, None, FALSE)

ResolveShortcut_exact_case(a, cfgFile) ==
    LET shortcuts == load_json(cfgFile, DefaultConfig).shortcuts
        byFlag == a[1] = <<"-", "s">>
        shortcut_name == IF byFlag THEN a[2] ELSE Tail(a[1])
        extra_note == IF byFlag
                      THEN (IF Len(a) > 2 THEN join(<<" ">>, Rest(a, 2)) ELSE <<>>)
                      ELSE (IF Len(a) > 1 THEN join(<<" ">>, Rest(a, 1)) ELSE <<>>)
    IN  IF byFlag /\ Len(a) < 2 THEN [kind |-> "usage"]
        ELSE IF shortcut_name \notin DOMAIN shortcuts THEN [kind |-> "not_found"]
        ELSE LET shortcut == shortcuts[shortcut_name]
                 note == IF Truthy(extra_note)
                         THEN (IF Truthy(shortcut.note)
                               THEN shortcut.note \o <<",", " ">> \o extra_note
                               ELSE extra_note)
                         ELSE shortcut.note
             IN  Resolved(Some(shortcut.customer), Some(shortcut.project), Some(note))

ResolveShortcut(a, cfgFile) ==
    LET shortcuts == load_json(cfgFile, DefaultConfig).shortcuts
        byFlag == a[1] = <<"-", "s">>
        shortcut_name == IF byFlag THEN lower(a[2]) ELSE lower(Tail(a[1]))
        extra_note == IF byFlag
                      THEN (IF Len(a) > 2 THEN join(<<" ">>, Rest(a, 2)) ELSE <<>>)
                      ELSE (IF Len(a) > 1 THEN join(<<" ">>, Rest(a, 1)) ELSE <<>>)
    IN  IF byFlag /\ Len(a) < 2 THEN [kind |-> "usage"]
        ELSE IF shortcut_name \notin DOMAIN shortcuts THEN [kind |-> "not_found"]
        ELSE LET shortcut == shortcuts[shortcut_name]
                 note == IF Truthy(extra_note)
                         THEN (IF Truthy(shortcut.note)
                               THEN shortcut.note \o <<",", " ">> \o extra_note
                               ELSE extra_note)
                         ELSE shortcut.note
             IN  Resolved(Some(shortcut.customer), Some(shortcut.project), Some(note))

IsShortcutSyntax(a) ==
    a # <<>> /\ (a[1] = <<"-", "s">> \/ startswith(a[1], "@"))

ResolveStart(a, inp, cfgFile) ==
    IF IsShortcutSyntax(a)
    THEN ResolveShortcut(a, cfgFile)
    ELSE get_customer_and_project(a, cfgFile, inp)

Accepted(r) ==
    /\ r.kind = "ok"
    /\ IsSome(r.customer) /\ Truthy(Get(r.customer))
    /\ IsSome(r.project) /\ Truthy(Get(r.project))

IsRunning(dataFile) == IsSome(load_json(dataFile, DefaultData).current)

StopIfRunning_skipped(loaded, now1) == loaded

StopIfRunning(loaded, now1) ==
    IF IsSome(loaded.current) THEN stop_current(loaded, now1).data ELSE loaded

NewSession_without_note(r, now2) ==
    [customer |-> Get(r.customer),
     project |-> Get(r.project),
     start_timestamp |-> now2,
     notes |-> <<>>]

NewSession(r, now2) ==
    LET notes_list == IF IsSome(r.note) /\ Truthy(Get(r.note))
                      THEN <<Get(r.note)>> ELSE <<>>
    IN  [customer |-> Get(r.customer),
         project |-> Get(r.project),
         start_timestamp |-> now2,
         notes |-> notes_list]

cmd_start_saves_implicit_stop(a, inp, now1, now2, dataFile, cfgFile) ==
    IF load_json_raises(dataFile) THEN Raised(dataFile)
    ELSE LET loaded == load_json(dataFile, DefaultData)
             data == StopIfRunning(loaded, now1)
             ts == IF IsSome(loaded.current) THEN Some(now1) ELSE None
             stopped == IF IsSome(loaded.current) THEN save_json(data)
                        ELSE dataFile
             r == ResolveStart(a, inp, cfgFile)
         IN  IF r.kind # "ok" THEN Outcome(stopped, r.kind, None, ts, None, FALSE)
             ELSE IF ~Accepted(r)
             THEN Outcome(stopped, "cancelled", Some(r), ts, None, FALSE)
             ELSE Outcome(save_json([data EXCEPT
                                        !.current = Some(NewSession(r, now2))]),
                          "started", Some(r), ts, Some(now2), TRUE)

cmd_start_stamps_before_stop(a, inp, now1, now2, dataFile, cfgFile) ==
    IF load_json_raises(dataFile) THEN Raised(dataFile)
    ELSE LET loaded == load_json(dataFile, DefaultData)
             data == StopIfRunning(loaded, now2)
             ts == IF IsSome(loaded.current) THEN Some(now1) ELSE None
             r == ResolveStart(a, inp, cfgFile)
         IN  IF r.kind # "ok" THEN Outcome(dataFile, r.kind, None, ts, None, FALSE)
             ELSE IF ~Accepted(r)
             THEN Outcome(dataFile, "cancelled", Some(r), ts, None, FALSE)
             ELSE Outcome(save_json([data EXCEPT
                                        !.current = Some(NewSession(r, now1))]),
                          "started", Some(r), ts, Some(now2), TRUE)

cmd_start(a, inp, now1, now2, dataFile, cfgFile) ==
    IF load_json_raises(dataFile) THEN Raised(dataFile)
    ELSE LET loaded == load_json(dataFile, DefaultData)
             data == StopIfRunning(loaded, now1)
             ts == IF IsSome(loaded.current) THEN Some(now1) ELSE None
             r == ResolveStart(a, inp, cfgFile)
         IN  IF r.kind # "ok" THEN Outcome(dataFile, r.kind, None, ts, None, FALSE)
             ELSE IF ~Accepted(r)
             THEN Outcome(dataFile, "cancelled", Some(r), ts, None, FALSE)
             ELSE Outcome(save_json([data EXCEPT
                                        !.current = Some(NewSession(r, now2))]),
                          "started", Some(r), ts, Some(now2), TRUE)

AppendNote_in_front(c, new_note) ==
    [c EXCEPT !.notes = <<new_note>> \o c.notes]

AppendNote(c, new_note) ==
    [c EXCEPT !.notes = Append(c.notes, new_note)]

cmd_note_saves_when_idle(a, dataFile) ==
    LET data == load_json(dataFile, DefaultData)
    IN  IF ~IsSome(data.current)
        THEN Outcome(save_json(data), "no_timer", None, None, None, TRUE)
        ELSE IF a = <<>>
        THEN Outcome(dataFile, "note_empty", None, None, None, FALSE)
        ELSE Outcome(save_json([data EXCEPT !.current =
                         Some(AppendNote(Get(data.current), join(<<" ">>, a)))]),
                     "note_added", None, None, None, TRUE)

cmd_note(a, dataFile) ==
    IF load_json_raises(dataFile) THEN Raised(dataFile)
    ELSE LET data == load_json(dataFile, DefaultData)
         IN  IF ~IsSome(data.current)
             THEN Outcome(dataFile, "no_timer", None, None, None, FALSE)
             ELSE IF a = <<>>
             THEN Outcome(dataFile, "note_empty", None, None, None, FALSE)
             ELSE LET new_note == join(<<" ">>, a)
                  IN  Outcome(save_json([data EXCEPT !.current =
                                  Some(AppendNote(Get(data.current), new_note))]),
                              "note_added", None, None, None, TRUE)

cmd_stop_always_saves(now, dataFile) ==
    LET data == load_json(dataFile, DefaultData)
        r == stop_current(data, now)
    IN  Outcome(save_json(r.data), IF r.stopped THEN "stopped" ELSE "no_timer",
                None, IF r.stopped THEN Some(now) ELSE None, None, TRUE)

cmd_stop(now, dataFile) ==
    IF load_json_raises(dataFile) THEN Raised(dataFile)
    ELSE LET data == load_json(dataFile, DefaultData)
             r == stop_current(data, now)
         IN  IF r.stopped
             THEN Outcome(save_json(r.data), "stopped", None, Some(now), None, TRUE)
             ELSE Outcome(dataFile, "no_timer", None, None, None, FALSE)

(***************************************************************************)
(* The report.  summary is the dict of cmd_report as the sequence of its   *)
(* items in insertion order, and so is the tasks dict of each item: a new  *)
(* key goes to the end, an assignment to a present key keeps its place.    *)
(***************************************************************************)
NoDescription ==
    <<"N", "o", " ", "D", "e", "s", "c", "r", "i", "p", "t", "i", "o", "n">>

TaskName_first_note(notes_list) ==
    IF Truthy(notes_list) THEN notes_list[1] ELSE NoDescription

TaskName(notes_list) ==
    IF Truthy(notes_list) THEN join(<<",", " ">>, notes_list)
    ELSE NoDescription

HasTask(tasks, task_name) ==
    \E j \in 1..Len(tasks) : tasks[j].task_name = task_name

TaskIndex(tasks, task_name) ==
    CHOOSE j \in 1..Len(tasks) : tasks[j].task_name = task_name

AddToTask_moves_label(tasks, task_name, seconds) ==
    IF HasTask(tasks, task_name)
    THEN LET j == TaskIndex(tasks, task_name)
         IN  Append(SubSeq(tasks, 1, j - 1) \o SubSeq(tasks, j + 1, Len(tasks)),
                    [task_name |-> task_name,
                     seconds |-> tasks[j].seconds + seconds])
    ELSE Append(tasks, [task_name |-> task_name, seconds |-> seconds])

AddToTask(tasks, task_name, seconds) ==
    IF HasTask(tasks, task_name)
    THEN [tasks EXCEPT ![TaskIndex(tasks, task_name)].seconds = @ + seconds]
    ELSE Append(tasks, [task_name |-> task_name, seconds |-> seconds])

HasKey(summary, key) == \E i \in 1..Len(summary) : summary[i].key = key

KeyIndex(summary, key) == CHOOSE i \in 1..Len(summary) : summary[i].key = key

process_entry_overwrites_total(summary, cust, proj, seconds, notes_list) ==
    LET key == <<cust, proj>>
        with_key == IF HasKey(summary, key) THEN summary
                    ELSE Append(summary, [key |-> key, total_seconds |-> 0,
                                          tasks |-> <<>>])
        i == KeyIndex(with_key, key)
    IN  [with_key EXCEPT
            ![i].total_seconds = seconds,
            ![i].tasks = AddToTask(@, TaskName(notes_list), seconds)]

process_entry(summary, cust, proj, seconds, notes_list) ==
    LET key == <<cust, proj>>
        with_key == IF HasKey(summary, key) THEN summary
                    ELSE Append(summary, [key |-> key, total_seconds |-> 0,
                                          tasks |-> <<>>])
        i == KeyIndex(with_key, key)
    IN  [with_key EXCEPT
            ![i].total_seconds = @ + seconds,
            ![i].tasks = AddToTask(@, TaskName(notes_list), seconds)]

RECURSIVE ProcessHistory(_, _)
ProcessHistory(summary, history) ==
    IF history = <<>> THEN summary
    ELSE LET entry == Head(history)
         IN  ProcessHistory(process_entry(summary, entry.customer,
                                          entry.project,
                                          entry.duration_seconds, entry.notes),
                            Tail(history))

ProcessCurrent_elapsed_only(summary, data, now) ==
    IF IsSome(data.current)
    THEN LET c == Get(data.current)
             raw == now - c.start_timestamp
         IN  process_entry(summary, c.customer, c.project, raw, c.notes)
    ELSE summary

ProcessCurrent(summary, data, now) ==
    IF IsSome(data.current)
    THEN LET c == Get(data.current)
             raw == now - c.start_timestamp
             billed == round_seconds_to_15min(raw)
         IN  process_entry(summary, c.customer, c.project, billed, c.notes)
    ELSE summary

(***************************************************************************)
(* sorted() with the key of line 491.  Strings compare by code point,      *)
(* tuples by their first differing component; the sort is stable.          *)
(***************************************************************************)
CodePoints ==
    <<" ", ",", "-">> \o Digits \o <<"@">> \o UpperCase \o LowerCase

Ord(c) == IndexOf(CodePoints, c)

RECURSIVE StrLess(_, _)
StrLess(a, b) ==
    IF b = <<>> THEN FALSE
    ELSE IF a = <<>> THEN TRUE
    ELSE IF a[1] = b[1] THEN StrLess(Tail(a), Tail(b))
    ELSE Ord(a[1]) < Ord(b[1])

PairLess(p, q) == StrLess(p[1], q[1]) \/ (p[1] = q[1] /\ StrLess(p[2], q[2]))

SortKey_exact(item) == <<item.key[1], item.key[2]>>

SortKey(item) == <<lower(item.key[1]), lower(item.key[2])>>

InsertSorted_before_equal(list, x) ==
    LET n == Cardinality({i \in 1..Len(list) :
                             PairLess(SortKey(list[i]), SortKey(x))})
    IN  SubSeq(list, 1, n) \o <<x>> \o SubSeq(list, n + 1, Len(list))

InsertSorted(list, x) ==
    LET n == Cardinality({i \in 1..Len(list) :
                             ~PairLess(SortKey(x), SortKey(list[i]))})
    IN  SubSeq(list, 1, n) \o <<x>> \o SubSeq(list, n + 1, Len(list))

RECURSIVE sorted(_)
sorted(items) ==
    IF items = <<>> THEN <<>>
    ELSE InsertSorted(sorted(SubSeq(items, 1, Len(items) - 1)),
                      items[Len(items)])

(***************************************************************************)
(* What cmd_report prints: one line per group with its total as HH:MM and  *)
(* in minutes, under it one line per task with its minutes, the TOTAL      *)
(* line, and the remark on the running timer.  clock is the time read at   *)
(* line 480, if it was read.                                               *)
(***************************************************************************)
Minutes(seconds) == seconds \div Sec(60)

TaskLine(task) ==
    [task_name |-> task.task_name, seconds |-> task.seconds,
     t_min |-> Minutes(task.seconds)]

GroupLine(item) ==
    [customer |-> item.key[1],
     project |-> item.key[2],
     total_seconds |-> item.total_seconds,
     total |-> get_formatted_duration(item.total_seconds),
     total_min |-> Minutes(item.total_seconds),
     tasks |-> [j \in 1..Len(item.tasks) |-> TaskLine(item.tasks[j])]]

AddToTotal_overwrites(total_day_seconds, info) == info.total_seconds

AddToTotal(total_day_seconds, info) ==
    total_day_seconds + info.total_seconds

RECURSIVE TotalDaySeconds(_)
TotalDaySeconds(sorted_items) ==
    IF sorted_items = <<>> THEN 0
    ELSE AddToTotal(TotalDaySeconds(SubSeq(sorted_items, 1,
                                           Len(sorted_items) - 1)),
                    sorted_items[Len(sorted_items)])

Report(data, now) ==
    LET summary == ProcessCurrent(ProcessHistory(<<>>, data.history), data, now)
        sorted_items == sorted(summary)
        total_day_seconds == TotalDaySeconds(sorted_items)
    IN  [groups |-> [i \in 1..Len(sorted_items) |-> GroupLine(sorted_items[i])],
         total_day_seconds |-> total_day_seconds,
         total |-> get_formatted_duration(total_day_seconds),
         total_min |-> Minutes(total_day_seconds),
         includes_running |-> IsSome(data.current),
         clock |-> IF IsSome(data.current) THEN Some(now) ELSE None]

cmd_report_commits_running(now, dataFile) ==
    LET data == load_json(dataFile, DefaultData)
        r == stop_current(data, now)
    IN  [file |-> IF r.stopped THEN save_json(r.data) ELSE dataFile,
         msg |-> "report", req |-> None, tstop |-> None, tstart |-> None,
         saved |-> r.stopped, report |-> Report(data, now)]

cmd_report(now, dataFile) ==
    IF load_json_raises(dataFile) THEN Raised(dataFile)
    ELSE LET data == load_json(dataFile, DefaultData)
         IN  [file |-> dataFile, msg |-> "report", req |-> None, tstop |-> None,
              tstart |-> None, saved |-> FALSE, report |-> Report(data, now)]

(***************************************************************************)
(* The report in copy mode prints the same report and hands the clipboard  *)
(* one line per group: customer, project, minutes, and the tasks with      *)
(* their minutes, those without a description left out.                    *)
(***************************************************************************)
ClipboardLine(group) ==
    [customer |-> group.customer,
     project |-> group.project,
     total_min |-> group.total_min,
     task_items |->
         LET named == SelectSeq(group.tasks,
                                LAMBDA t : t.task_name # NoDescription)
         IN  [j \in 1..Len(named) |->
                 [task_name |-> named[j].task_name, t_min |-> named[j].t_min]]]

Copied(report) ==
    [groups |-> report.groups,
     total_day_seconds |-> report.total_day_seconds,
     total |-> report.total,
     total_min |-> report.total_min,
     includes_running |-> report.includes_running,
     clock |-> report.clock,
     clipboard_text |-> [i \in 1..Len(report.groups) |->
                            ClipboardLine(report.groups[i])]]

cmd_report_copy_mode(now, dataFile) ==
    IF load_json_raises(dataFile) THEN Raised(dataFile)
    ELSE LET data == load_json(dataFile, DefaultData)
         IN  [file |-> dataFile, msg |-> "report_copied", req |-> None,
              tstop |-> None, tstart |-> None, saved |-> FALSE,
              report |-> Copied(Report(data, now))]

(***************************************************************************)
(* reset asks for one line; "y" in either case removes the day file.       *)
(***************************************************************************)
cmd_reset_keeps_file(inp, dataFile) ==
    IF AtEOF(inp, 1) \/ inp[1].interrupt THEN Raised(dataFile)
    ELSE IF lower(inp[1].line) = <<"y">>
    THEN Outcome(dataFile, "cleared", None, None, None, FALSE)
    ELSE Outcome(dataFile, "cancelled", None, None, None, FALSE)

cmd_reset(inp, dataFile) ==
    IF AtEOF(inp, 1) \/ inp[1].interrupt THEN Raised(dataFile)
    ELSE LET choice == lower(inp[1].line)
         IN  IF choice = <<"y">>
             THEN Outcome(NoFile, "cleared", None, None, None, FALSE)
             ELSE Outcome(dataFile, "cancelled", None, None, None, FALSE)

cmd_help(dataFile) == Outcome(dataFile, "help", None, None, None, FALSE)


(***************************************************************************)
(* Configuration commands.  Each returns the configuration file it leaves  *)
(* on disk and the message printed.                                        *)
(***************************************************************************)
ConfigOutcome(c, m) == [config |-> c, msg |-> m]

DictSet(d, k, v) == [x \in (DOMAIN d) \cup {k} |-> IF x = k THEN v ELSE d[x]]
DictDel(d, k) == [x \in (DOMAIN d) \ {k} |-> d[x]]

Contains(list, x) == \E i \in 1..Len(list) : list[i] = x

RECURSIVE AddProjects(_, _, _)
AddProjects(projects, inp, k) ==
    IF AtEOF(inp, k) \/ inp[k].interrupt THEN [kind |-> "crash"]
    ELSE LET proj == strip(inp[k].line)
         IN  IF ~Truthy(proj) THEN [kind |-> "ok", projects |-> projects]
             ELSE AddProjects(IF Contains(projects, proj) THEN projects
                              ELSE Append(projects, proj), inp, k + 1)

cmd_add(inp, cfgFile) ==
    LET cfg == load_json(cfgFile, DefaultConfig)
    IN  IF AtEOF(inp, 1) \/ inp[1].interrupt THEN ConfigOutcome(cfgFile, "crash")
        ELSE LET cust_name == strip(inp[1].line)
                 known == \E i \in 1..Len(cfg.customers) :
                              cfg.customers[i].name = cust_name
                 pos == IF known
                        THEN CHOOSE i \in 1..Len(cfg.customers) :
                                 /\ cfg.customers[i].name = cust_name
                                 /\ \A j \in 1..(i - 1) :
                                        cfg.customers[j].name # cust_name
                        ELSE Len(cfg.customers) + 1
                 customers == IF known THEN cfg.customers
                              ELSE Append(cfg.customers,
                                          [name |-> cust_name, projects |-> <<>>])
                 added == AddProjects(customers[pos].projects, inp, 2)
             IN  IF ~Truthy(cust_name) THEN ConfigOutcome(cfgFile, "customer_empty")
                 ELSE IF added.kind = "crash" THEN ConfigOutcome(cfgFile, "crash")
                 ELSE ConfigOutcome(
                          save_json([cfg EXCEPT !.customers =
                              [customers EXCEPT ![pos].projects = added.projects]]),
                          "saved")

cmd_shortcut(a, cfgFile) ==
    LET cfg == load_json(cfgFile, DefaultConfig)
    IN  IF a # <<>> /\ a[1] = <<"-", "-", "c", "o", "m", "p", "l", "e", "t", "e">>
        THEN ConfigOutcome(cfgFile, "complete")
        ELSE IF a # <<>> /\ a[1] = <<"p", "i", "c", "k">>
        THEN ConfigOutcome(cfgFile, "pick")
        ELSE IF a = <<>> \/ a[1] = <<"l", "i", "s", "t">>
        THEN ConfigOutcome(cfgFile, "list")
        ELSE LET action == lower(a[1])
             IN  IF action = <<"a", "d", "d">>
                 THEN IF Len(a) < 4 THEN ConfigOutcome(cfgFile, "usage")
                      ELSE LET name == lower(a[2])
                               note == IF Len(a) > 4
                                       THEN join(<<" ">>, Rest(a, 4)) ELSE <<>>
                               entry == [customer |-> a[3],
                                         project |-> a[4],
                                         note |-> note]
                           IN  ConfigOutcome(
                                   save_json([cfg EXCEPT !.shortcuts =
                                       DictSet(cfg.shortcuts, name, entry)]),
                                   "created")
                 ELSE IF action \in {<<"d", "e", "l", "e", "t", "e">>,
                                     <<"r", "e", "m", "o", "v", "e">>,
                                     <<"r", "m">>}
                 THEN IF Len(a) < 2 THEN ConfigOutcome(cfgFile, "usage")
                      ELSE LET name == lower(a[2])
                           IN  IF name \in DOMAIN cfg.shortcuts
                               THEN ConfigOutcome(
                                        save_json([cfg EXCEPT !.shortcuts =
                                            DictDel(cfg.shortcuts, name)]),
                                        "deleted")
                               ELSE ConfigOutcome(cfgFile, "not_found")
                 ELSE ConfigOutcome(cfgFile, "unknown")

(***************************************************************************)
(* main: argv is sys.argv without the program name.  The result names the  *)
(* handler called and the arguments it is called with.                     *)
(***************************************************************************)
Call(handler, a) == [handler |-> handler, args |-> a]

main_case_sensitive(line) ==
    IF Len(line) < 1 THEN Call("cmd_start", <<>>)
    ELSE LET c == line[1]
         IN  IF c = <<"s", "t", "a", "r", "t">> THEN Call("cmd_start", Tail(line))
             ELSE IF c = <<"s", "h", "o", "r", "t", "c", "u", "t">>
                     \/ c = <<"s", "h", "o", "r", "t", "c", "u", "t", "s">>
             THEN Call("cmd_shortcut", Tail(line))
             ELSE IF c = <<"n", "o", "t", "e">> THEN Call("cmd_note", Tail(line))
             ELSE IF c = <<"a", "d", "d">> THEN Call("cmd_add", <<>>)
             ELSE IF c = <<"s", "t", "o", "p">> \/ c = <<"p", "a", "u", "s", "e">>
             THEN Call("cmd_stop", <<>>)
             ELSE IF c = <<"r", "e", "p", "o", "r", "t">>
                     \/ c = <<"s", "t", "a", "t", "u", "s">>
             THEN Call("cmd_report", <<FALSE>>)
             ELSE IF c = <<"c", "o", "p", "y">> THEN Call("cmd_report", <<TRUE>>)
             ELSE IF c = <<"r", "e", "s", "e", "t">> THEN Call("cmd_reset", <<>>)
             ELSE IF c = <<"h", "e", "l", "p">> \/ c = <<"-", "h">>
                     \/ c = <<"-", "-", "h", "e", "l", "p">>
             THEN Call("cmd_help", <<>>)
             ELSE Call("cmd_start", line)

main(line) ==
    IF Len(line) < 1 THEN Call("cmd_start", <<>>)
    ELSE LET c == lower(line[1])
         IN  IF c = <<"s", "t", "a", "r", "t">> THEN Call("cmd_start", Tail(line))
             ELSE IF c = <<"s", "h", "o", "r", "t", "c", "u", "t">>
                     \/ c = <<"s", "h", "o", "r", "t", "c", "u", "t", "s">>
             THEN Call("cmd_shortcut", Tail(line))
             ELSE IF c = <<"n", "o", "t", "e">> THEN Call("cmd_note", Tail(line))
             ELSE IF c = <<"a", "d", "d">> THEN Call("cmd_add", <<>>)
             ELSE IF c = <<"s", "t", "o", "p">> \/ c = <<"p", "a", "u", "s", "e">>
             THEN Call("cmd_stop", <<>>)
             ELSE IF c = <<"r", "e", "p", "o", "r", "t">>
                     \/ c = <<"s", "t", "a", "t", "u", "s">>
             THEN Call("cmd_report", <<FALSE>>)
             ELSE IF c = <<"c", "o", "p", "y">> THEN Call("cmd_report", <<TRUE>>)
             ELSE IF c = <<"r", "e", "s", "e", "t">> THEN Call("cmd_reset", <<>>)
             ELSE IF c = <<"h", "e", "l", "p">> \/ c = <<"-", "h">>
                     \/ c = <<"-", "-", "h", "e", "l", "p">>
             THEN Call("cmd_help", <<>>)
             ELSE Call("cmd_start", line)

(***************************************************************************)
(* Inputs of the exploration.  NoRead stands for a clock that the command  *)
(* does not read.                                                          *)
(***************************************************************************)
Times == {Sec(1000), Sec(1060), Sec(1900)}
NoRead == 0
ReadsIf(T, read) == IF read THEN T ELSE {NoRead}

StartArgs ==
    { <<>>, << <<"A">> >>, << <<"1">> >>,
      << <<"A">>, <<"p">> >>,
      << <<"b">>, <<"q">>, <<"n">> >>,
      << <<"b">>, <<"q">>, <<"n">>, <<"m">> >>,
      << <<"A">>, <<"p">>, <<>> >>,
      << <<>>, <<"p">> >>,
      << <<"A">>, <<>> >>,
      << <<"1">>, <<"1">> >>,
      << <<"-", "s">> >>,
      << <<"-", "s">>, <<"D">> >>,
      << <<"@", "d">>, <<"e">> >>,
      << <<"@", "x">> >> }

Inputs ==
    { <<>>, <<Interrupt>>, <<Line(<<"1">>), Line(<<"1">>)>>,
      <<Line(<<" ", "b", " ">>), Line(<<"q">>)>>, <<Line(<<"b">>), Line(<<" ">>)>>,
      <<Line(<<"q">>)>>, <<Line(<<>>)>> }

InputsFor(a) == IF Len(a) <= 1 /\ ~IsShortcutSyntax(a) THEN Inputs ELSE {<<>>}

NoteArgs ==
    { <<>>, << <<>> >>, << <<" ">> >>, << <<"x">> >>, << <<"x">>, <<"y">> >> }

(***************************************************************************)
(* Stores the program leaves on disk, from which the exploration starts:   *)
(* nothing persisted; a configuration with one customer and one shortcut;  *)
(* a day with one finished session; a day with one finished session and a  *)
(* running one.                                                            *)
(***************************************************************************)
SeedConfig ==
    cmd_shortcut(<< <<"a", "d", "d">>, <<"D">>, <<"b">>, <<"q">>, <<"n">> >>,
                 cmd_add(<<Line(<<"A">>), Line(<<"p">>), Line(<<>>)>>,
                         NoFile).config).config

SeedRunning ==
    cmd_start(<< <<"b">>, <<"q">>, <<"n">> >>, <<>>, Sec(1060), Sec(1060),
              cmd_start(<< <<"A">>, <<"p">> >>, <<>>, NoRead, Sec(1000),
                        NoFile, NoFile).file,
              NoFile).file

SeedIdle ==
    cmd_stop(Sec(1900),
             cmd_start(<< <<"A">>, <<"p">> >>, <<>>, NoRead, Sec(1000),
                       NoFile, NoFile).file).file

Seeds ==
    { <<NoFile, NoFile>>, <<SeedIdle, NoFile>>, <<SeedRunning, SeedConfig>> }

(***************************************************************************)
(* The state machine: one command per step.                                *)
(***************************************************************************)
InitWith(S) ==
    /\ \E seed \in S : file = seed[1] /\ config = seed[2]
    /\ argv = <<>>
    /\ cmd = "init"
    /\ args = <<>>
    /\ msg = "init"
    /\ req = None
    /\ tstop = None
    /\ tstart = None
    /\ saved = FALSE
    /\ out = None
    /\ steps = 0

Init == InitWith(Seeds)

Called(line, name, a, o) ==
    /\ argv' = line
    /\ steps' = steps + 1
    /\ cmd' = name
    /\ args' = a
    /\ file' = o.file
    /\ msg' = o.msg
    /\ req' = o.req
    /\ tstop' = o.tstop
    /\ tstart' = o.tstart
    /\ saved' = o.saved
    /\ out' = IF "report" \in DOMAIN o THEN Some(o.report) ELSE None

Ran(name, a, o) == Called(argv, name, a, o)

StartWith(A, T) ==
    /\ steps < MaxSteps
    /\ \E a \in A :
        \E inp \in InputsFor(a) :
            \E now1 \in ReadsIf(T, IsRunning(file)),
               now2 \in ReadsIf(T, Accepted(ResolveStart(a, inp, config))) :
                /\ Ran("start", <<>>, cmd_start(a, inp, now1, now2, file, config))
                /\ UNCHANGED config

StopWith(T) ==
    /\ steps < MaxSteps
    /\ \E now \in ReadsIf(T, IsRunning(file)) :
        /\ Ran("stop", <<>>, cmd_stop(now, file))
        /\ UNCHANGED config

ReportWith(T) ==
    /\ steps < MaxSteps
    /\ \E now \in ReadsIf(T, IsRunning(file)) :
        /\ Ran("report", <<>>, cmd_report(now, file))
        /\ UNCHANGED config

NoteWith(A) ==
    /\ steps < MaxSteps
    /\ \E a \in A :
        /\ Ran("note", a, cmd_note(a, file))
        /\ UNCHANGED config

CmdStart == StartWith(StartArgs, Times)

CmdNote == NoteWith(NoteArgs)

CmdStop == StopWith(Times)

CmdReport == ReportWith(Times)

Next == CmdStart \/ CmdNote \/ CmdStop \/ CmdReport

Spec == Init /\ [][Next]_vars

(***************************************************************************)
(* The same machine under a clock that also falls between whole seconds,   *)
(* restricted to the commands that read it to start and to end a session.  *)
(***************************************************************************)
ClockTimes ==
    {Sec(1000), Sec(1000) + 1, Sec(1060), Sec(1900), Sec(2000), Sec(2800) + 1}

ClockArgs == { << <<"A">>, <<"p">> >>, << <<"b">>, <<"q">>, <<"n">> >> }

ClockStart == StartWith(ClockArgs, ClockTimes)

ClockStop == StopWith(ClockTimes)

NextClock == ClockStart \/ ClockStop

SpecClock == Init /\ [][NextClock]_vars

(***************************************************************************)
(* The same machine on days that give the report something to group and    *)
(* to order: customers that differ only in case, a customer whose place    *)
(* depends on the case of its first letter, a project worked on under      *)
(* several notes and twice under the same one, and a clock that reads      *)
(* before, half a second after and 16 minutes after the start of the       *)
(* running session.                                                        *)
(***************************************************************************)
Then(dataFile, a, now) == cmd_start(a, <<>>, now, now, dataFile, NoFile).file

ReportSeedIdle ==
    cmd_stop(Sec(3000),
        Then(Then(Then(Then(NoFile,
                            << <<"B">>, <<"q">>, <<"n">> >>, Sec(1000)),
                       << <<"a">>, <<"p">> >>, Sec(1060)),
                  << <<"B">>, <<"q">>, <<"m">> >>, Sec(1900)),
             << <<"B">>, <<"q">>, <<"n">> >>, Sec(2000))).file

ReportSeedRunning ==
    Then(ReportSeedIdle, << <<"A">>, <<"p">>, <<"n">> >>, Sec(3000))

ReportSeeds ==
    { <<NoFile, NoFile>>, <<ReportSeedIdle, NoFile>>,
      <<ReportSeedRunning, NoFile>> }

ReportTimes == {Sec(900), Sec(3000) + 1, Sec(3960)}

ReportArgs ==
    { << <<"B">>, <<"q">>, <<"n">> >>, << <<"B">>, <<"q">> >>,
      << <<"a">>, <<"p">> >>, << <<"A">>, <<"p">>, <<"m">> >> }

ReportNoteArgs == { << <<"m">> >>, << <<"n">> >> }

InitReport == InitWith(ReportSeeds)

ReportStart == StartWith(ReportArgs, ReportTimes)

ReportNote == NoteWith(ReportNoteArgs)

ReportStop == StopWith(ReportTimes)

ReportShow == ReportWith(ReportTimes)

NextReport == ReportStart \/ ReportNote \/ ReportStop \/ ReportShow

SpecReport == InitReport /\ [][NextReport]_vars

(***************************************************************************)
(* The same machine started on a day file that is absent, that cannot be   *)
(* read, or that holds a running session.                                  *)
(***************************************************************************)
LoadSeeds ==
    { <<NoFile, NoFile>>, <<SeedRunning, SeedConfig>> }
        \cup { <<Unreadable(error), NoFile>> : error \in ReadErrors }

InitLoad == InitWith(LoadSeeds)

LoadStart == StartWith(ClockArgs, Times)

LoadNote == NoteWith(ReportNoteArgs)

LoadStop == StopWith(Times)

LoadReport == ReportWith(Times)

NextLoad == LoadStart \/ LoadNote \/ LoadStop \/ LoadReport

SpecLoad == InitLoad /\ [][NextLoad]_vars

(***************************************************************************)
(* The program as it is run: a command line is given to main, which calls  *)
(* one handler; the handler reads the lines typed at its prompts and the   *)
(* clock.                                                                  *)
(***************************************************************************)
Argvs ==
    { <<>>,
      <<<<"s", "t", "a", "r", "t">>>>,
      <<<<"s", "t", "a", "r", "t">>, <<"A">>, <<"p">>>>,
      <<<<"S", "t", "a", "r", "t">>, <<"@", "D">>, <<"e">>>>,
      <<<<"s", "t", "a", "r", "t">>, <<"-", "s">>, <<"d">>>>,
      <<<<"s", "t", "a", "r", "t">>, <<"@", "x">>>>,
      <<<<"s", "t", "a", "r", "t">>, <<"-", "s">>>>,
      <<<<"s", "t", "a", "r", "t">>, <<"-", "s">>, <<"E">>>>,
      <<<<"@", "d">>>>,
      <<<<"1">>, <<"1">>>>,
      <<<<"b">>, <<"q">>, <<"n">>>>,
      <<<<"s", "t", "o", "p">>>>,
      <<<<"P", "A", "U", "S", "E">>>>,
      <<<<"r", "e", "p", "o", "r", "t">>>>,
      <<<<"S", "t", "a", "t", "u", "s">>>>,
      <<<<"c", "o", "p", "y">>>>,
      <<<<"n", "o", "t", "e">>, <<"x">>, <<"y">>>>,
      <<<<"a", "d", "d">>>>,
      <<<<"r", "e", "s", "e", "t">>>>,
      <<<<"s", "h", "o", "r", "t", "c", "u", "t">>>>,
      <<<<"s", "h", "o", "r", "t", "c", "u", "t", "s">>, <<"a", "d", "d">>, <<"D">>, <<"x">>, <<"y">>, <<"z">>>>,
      <<<<"s", "h", "o", "r", "t", "c", "u", "t">>, <<"a", "d", "d">>, <<"e">>, <<>>, <<"y">>>>,
      <<<<"s", "h", "o", "r", "t", "c", "u", "t">>, <<"A", "d", "d">>, <<"E">>, <<"x">>, <<"y">>>>,
      <<<<"s", "h", "o", "r", "t", "c", "u", "t">>, <<"d", "e", "l", "e", "t", "e">>, <<"D">>>>,
      <<<<"s", "h", "o", "r", "t", "c", "u", "t">>, <<"r", "m">>, <<"x">>>>,
      <<<<"h", "e", "l", "p">>>>,
      <<<<"-", "h">>>>,
      <<<<"-", "-", "h", "e", "l", "p">>>> }

MainTimes == {Sec(1060), Sec(1900)}

StartInputs == { <<>>, <<Line(<<"1">>), Line(<<"1">>)>> }

AddInputs ==
    { <<Line(<<"A">>), Line(<<"r">>), Line(<<>>)>>, <<Line(<<>>)>>,
      <<Interrupt>> }

ResetInputs ==
    { <<>>, <<Interrupt>>, <<Line(<<"y">>)>>, <<Line(<<"Y">>)>>,
      <<Line(<<"n">>)>>, <<Line(<<>>)>>, <<Line(<<" ", "y">>)>>,
      <<Line(<<"y", "e", "s">>)>> }

Calls(handler) == {line \in Argvs : main(line).handler = handler}

StartInputsFor(a) ==
    IF Len(a) <= 1 /\ ~IsShortcutSyntax(a) THEN StartInputs ELSE {<<>>}

OnConfig(c) == Outcome(file, c.msg, None, None, None, FALSE)

MainStart ==
    /\ steps < MaxSteps
    /\ \E line \in Calls("cmd_start") :
        LET a == main(line).args
        IN  \E inp \in StartInputsFor(a) :
                \E now1 \in ReadsIf(MainTimes, IsRunning(file)),
                   now2 \in ReadsIf(MainTimes,
                                    Accepted(ResolveStart(a, inp, config))) :
                    /\ Called(line, "start", a,
                              cmd_start(a, inp, now1, now2, file, config))
                    /\ UNCHANGED config

MainShortcut ==
    /\ steps < MaxSteps
    /\ \E line \in Calls("cmd_shortcut") :
        LET a == main(line).args
            c == cmd_shortcut(a, config)
        IN  /\ Called(line, "shortcut", a, OnConfig(c))
            /\ config' = c.config

MainNote ==
    /\ steps < MaxSteps
    /\ \E line \in Calls("cmd_note") :
        LET a == main(line).args
        IN  /\ Called(line, "note", a, cmd_note(a, file))
            /\ UNCHANGED config

MainAdd ==
    /\ steps < MaxSteps
    /\ \E line \in Calls("cmd_add") :
        \E inp \in AddInputs :
            LET c == cmd_add(inp, config)
            IN  /\ Called(line, "add", <<>>, OnConfig(c))
                /\ config' = c.config

MainStop ==
    /\ steps < MaxSteps
    /\ \E line \in Calls("cmd_stop") :
        \E now \in ReadsIf(MainTimes, IsRunning(file)) :
            /\ Called(line, "stop", <<>>, cmd_stop(now, file))
            /\ UNCHANGED config

MainReport ==
    /\ steps < MaxSteps
    /\ \E line \in Calls("cmd_report") :
        \E now \in ReadsIf(MainTimes, IsRunning(file)) :
            LET copy_mode == main(line).args[1]
            IN  /\ Called(line, "report", <<copy_mode>>,
                          IF copy_mode THEN cmd_report_copy_mode(now, file)
                          ELSE cmd_report(now, file))
                /\ UNCHANGED config

MainReset ==
    /\ steps < MaxSteps
    /\ \E line \in Calls("cmd_reset") :
        \E inp \in ResetInputs :
            /\ Called(line, "reset", inp, cmd_reset(inp, file))
            /\ UNCHANGED config

MainHelp ==
    /\ steps < MaxSteps
    /\ \E line \in Calls("cmd_help") :
        /\ Called(line, "help", <<>>, cmd_help(file))
        /\ UNCHANGED config

NextMain ==
    \/ MainStart
    \/ MainShortcut
    \/ MainNote
    \/ MainAdd
    \/ MainStop
    \/ MainReport
    \/ MainReset
    \/ MainHelp

SpecMain == Init /\ [][NextMain]_vars

(***************************************************************************)
(* The duration policy on its own: a duration is drawn, from just below    *)
(* zero to MaxSeconds seconds in steps of one tick, and one of the two     *)
(* functions is applied to it.  args holds the argument, out the value     *)
(* returned.                                                               *)
(***************************************************************************)
Durations == (-Sec(2))..Sec(MaxSeconds)

InitPure ==
    /\ file = NoFile
    /\ config = NoFile
    /\ argv = <<>>
    /\ cmd = "init"
    /\ args \in {<<seconds>> : seconds \in Durations}
    /\ msg = "init"
    /\ req = None
    /\ tstop = None
    /\ tstart = None
    /\ saved = FALSE
    /\ out = None
    /\ steps = 0

Returned(name, value) ==
    /\ steps = 0
    /\ steps' = 1
    /\ cmd' = name
    /\ out' = Some(value)
    /\ UNCHANGED <<file, config, argv, args, msg, req, tstop, tstart, saved>>

RoundSeconds ==
    Returned("round_seconds_to_15min", round_seconds_to_15min(args[1]))

FormatDuration ==
    Returned("get_formatted_duration", get_formatted_duration(args[1]))

NextPure == RoundSeconds \/ FormatDuration

SpecPure == InitPure /\ [][NextPure]_vars

(***************************************************************************)
(* Properties.  In an action formula the unprimed day file is the store    *)
(* the command loaded and the primed one the store it left.                *)
(***************************************************************************)
Current(f) == load_json(f, DefaultData).current
History(f) == load_json(f, DefaultData).history
Last(list) == list[Len(list)]
IsPrefix(p, q) == Len(p) <= Len(q) /\ SubSeq(q, 1, Len(p)) = p

(* C1: a start on a Running store that installs a new session commits      *)
(* exactly one history entry for the old session: history grows by one     *)
(* entry at its end, that entry carries the old session's customer and     *)
(* project, and the current customer and project are the new values.       *)
C1_StartCommitsOldSession ==
    [][(cmd' = "start" /\ msg' = "started" /\ IsRunning(file)) =>
          /\ Len(History(file')) = Len(History(file)) + 1
          /\ IsPrefix(History(file), History(file'))
          /\ Last(History(file')).customer = Get(Current(file)).customer
          /\ Last(History(file')).project = Get(Current(file)).project
          /\ IsRunning(file')
          /\ Get(Current(file')).customer = Get(Get(req').customer)
          /\ Get(Current(file')).project = Get(Get(req').project)]_vars

C1_Witness ==
    /\ cmd = "start" /\ msg = "started" /\ IsSome(tstop)
    /\ Len(History(file)) = 2
    /\ Last(History(file)).customer = <<"b">>
    /\ Get(Current(file)).customer = <<"A">>

(* C2 as stated: start never fails; for any customer and project strings,  *)
(* empty ones included, the store ends Running with a new session whose    *)
(* start_timestamp is now and whose notes are [note] if a note was given,  *)
(* otherwise [].                                                           *)
StartedAsRequested ==
    LET r == Get(req)
    IN  /\ msg = "started" /\ saved
        /\ IsSome(tstart)
        /\ Current(file) =
              Some([customer |-> Get(r.customer),
                    project |-> Get(r.project),
                    start_timestamp |-> Get(tstart),
                    notes |-> IF IsSome(r.note) /\ Get(r.note) # <<>>
                              THEN <<Get(r.note)>> ELSE <<>>])

C2_Original_StartNeverFails ==
    (cmd = "start" /\ IsSome(req)
        /\ IsSome(Get(req).customer) /\ IsSome(Get(req).project))
    => StartedAsRequested

(* C2 amended: a start whose customer and project are both non-empty       *)
(* never fails: from Idle or Running the store ends Running with a new     *)
(* session for them whose start_timestamp is the clock reading taken for   *)
(* it and whose notes are [note] if a non-empty note was given, otherwise  *)
(* []; a start whose customer or project is empty is rejected and saves    *)
(* nothing.                                                                *)
C2_StartWithNamesNeverFails ==
    (cmd = "start" /\ IsSome(req)
        /\ IsSome(Get(req).customer) /\ IsSome(Get(req).project))
    => IF Get(Get(req).customer) # <<>> /\ Get(Get(req).project) # <<>>
       THEN StartedAsRequested
       ELSE msg = "cancelled" /\ ~saved /\ tstart = None

C2_Witness ==
    /\ cmd = "start" /\ msg = "started" /\ IsSome(tstop)
    /\ Get(Current(file)).notes = << <<"n", " ", "m">> >>
    /\ Get(Current(file)).start_timestamp = Sec(1900)
    /\ Get(tstop) = Sec(1060)

(* C3: stop on a Running store leaves it Idle and appends exactly one      *)
(* entry at the end of history, carrying the session's customer, project   *)
(* and notes in the same order; the earlier entries are unchanged.         *)
C3_StopCommitsSession ==
    [][(cmd' = "stop" /\ IsRunning(file)) =>
          /\ msg' = "stopped" /\ saved'
          /\ ~IsRunning(file')
          /\ Len(History(file')) = Len(History(file)) + 1
          /\ SubSeq(History(file'), 1, Len(History(file))) = History(file)
          /\ Last(History(file')).customer = Get(Current(file)).customer
          /\ Last(History(file')).project = Get(Current(file)).project
          /\ Last(History(file')).notes = Get(Current(file)).notes]_vars

C3_Witness ==
    /\ cmd = "stop" /\ msg = "stopped"
    /\ Len(History(file)) = 2
    /\ Last(History(file)).notes = << <<"n">>, <<"x", " ", "y">> >>

(* The smallest multiple of 900 seconds that is at least s, 0 for s <= 0.  *)
RoundUpToQuantum(s) ==
    IF s <= 0 THEN 0
    ELSE CHOOSE m \in {k * Sec(900) : k \in 1..((s \div Sec(900)) + 1)} :
             m >= s /\ m - s < Sec(900)

Max(a, b) == IF a >= b THEN a ELSE b

CommitsEntry == IsRunning(file) /\ saved' /\ cmd' \in {"start", "stop"}

CommittedAsElapsed ==
    LET start == Get(Current(file)).start_timestamp
        now == Get(tstop')
        e == Last(History(file'))
    IN  /\ Len(History(file')) = Len(History(file)) + 1
        /\ e.raw_seconds = Max(0, now - start)
        /\ e.duration_seconds = RoundUpToQuantum(e.raw_seconds)
        /\ IsWholeSeconds(e.duration_seconds)
        /\ (start = Sec(1000) /\ now = Sec(1060)) =>
               (e.duration_seconds = Sec(900) /\ e.raw_seconds = Sec(60))
        /\ (start = Sec(1000) /\ now = Sec(1900)) =>
               (e.duration_seconds = Sec(900) /\ e.raw_seconds = Sec(900))

C5_ClockRegressionClamped ==
    /\ [][(cmd' = "stop" /\ IsRunning(file)
             /\ Get(tstop') < Get(Current(file)).start_timestamp) =>
            /\ msg' = "stopped" /\ saved'
            /\ ~IsRunning(file')
            /\ Len(History(file')) = Len(History(file)) + 1
            /\ Last(History(file')).duration_seconds = 0
            /\ Last(History(file')).raw_seconds = 0]_vars
    /\ [](\A i \in 1..Len(History(file)) :
             /\ History(file)[i].raw_seconds >= 0
             /\ History(file)[i].duration_seconds >= 0)

C5_Witness ==
    /\ cmd = "stop" /\ msg = "stopped" /\ tstop = Some(Sec(1000))
    /\ ~IsRunning(file)
    /\ Last(History(file)).start_str = strftime_HM(Sec(2000))
    /\ Last(History(file)).raw_seconds = 0
    /\ Last(History(file)).duration_seconds = 0

(* C6: stop on an Idle store reports that nothing is running and leaves    *)
(* the store unchanged: current stays absent, history is not modified and  *)
(* nothing is written to the day file.                                     *)
C6_StopOnIdleChangesNothing ==
    [][(cmd' = "stop" /\ ~IsRunning(file)) =>
          /\ msg' = "no_timer"
          /\ ~saved'
          /\ file' = file
          /\ ~IsRunning(file')
          /\ History(file') = History(file)]_vars

C6_Witness ==
    /\ cmd = "stop" /\ msg = "no_timer" /\ steps = 2
    /\ ~IsRunning(file) /\ Len(History(file)) = 2

(* C7: add_note on an Idle store fails with NoActiveSession and leaves the *)
(* store unchanged: no session is created, history is untouched, nothing   *)
(* is saved.                                                               *)
C7_NoteOnIdleFails ==
    [][(cmd' = "note" /\ ~IsRunning(file)) =>
          /\ msg' = "no_timer"
          /\ ~saved'
          /\ file' = file
          /\ ~IsRunning(file')
          /\ History(file') = History(file)]_vars

C7_Witness ==
    /\ cmd = "note" /\ msg = "no_timer" /\ args = << <<"x">> >>
    /\ ~IsRunning(file) /\ Len(History(file)) = 2

Blank(a) == strip(join(<<" ">>, a)) = <<>>

(* C8: add_note on a Running store with empty or blank text (no text, the  *)
(* empty string, or whitespace only) fails with EmptyNote and leaves the   *)
(* session's notes unchanged.                                              *)
C8_BlankNoteRejected ==
    [][(cmd' = "note" /\ IsRunning(file) /\ Blank(args')) =>
          /\ msg' = "note_empty"
          /\ IsRunning(file')
          /\ Get(Current(file')).notes = Get(Current(file)).notes]_vars

(* C9: add_note on a Running store with non-blank text appends the text as *)
(* the last note, keeps the prior notes in their order and changes nothing *)
(* else: same customer, project and start_timestamp, still Running,        *)
(* history unchanged.                                                      *)
C9_NoteAppended ==
    [][(cmd' = "note" /\ IsRunning(file) /\ ~Blank(args')) =>
          /\ msg' = "note_added" /\ saved'
          /\ IsRunning(file')
          /\ Get(Current(file')).notes =
                 Append(Get(Current(file)).notes, join(<<" ">>, args'))
          /\ Get(Current(file')).customer = Get(Current(file)).customer
          /\ Get(Current(file')).project = Get(Current(file)).project
          /\ Get(Current(file')).start_timestamp =
                 Get(Current(file)).start_timestamp
          /\ History(file') = History(file)]_vars

C9_Witness ==
    /\ cmd = "note" /\ msg = "note_added" /\ args = << <<"x">>, <<"y">> >>
    /\ Get(Current(file)).notes = << <<"n">>, <<"x">>, <<"x", " ", "y">> >>
    /\ Len(History(file)) = 1

(* C10: history is append-only: across start, add_note, stop and report    *)
(* the history before a command is a prefix of the history after it, so    *)
(* entries are never removed, reordered or modified and new ones appear    *)
(* only at the end.                                                        *)
C10_HistoryAppendOnly ==
    [][/\ IsPrefix(History(file), History(file'))
       /\ Len(History(file')) <= Len(History(file)) + 1]_vars

C10_Witness ==
    /\ cmd = "stop" /\ msg = "stopped"
    /\ Len(History(file)) = 3
    /\ History(file)[1].customer = <<"A">>
    /\ History(file)[2].customer = <<"b">>
    /\ History(file)[3].customer = <<"A">>

\* C11: round_seconds_to_15min returns 0 for seconds <= 0; for seconds > 0 it
\* returns the smallest multiple of 900 s that is >= seconds (so the result
\* is >= seconds, a multiple of 900 s and less than 900 s above seconds), and
\* an exact multiple of 900 s is returned unchanged (60 -> 900, 900 -> 900,
\* 960 -> 1800, 2640 -> 2700, 3600 -> 3600).
C11_RoundsUpToQuantum ==
    cmd = "round_seconds_to_15min" =>
        LET seconds == args[1]
            result == Get(out)
        IN  /\ seconds <= 0 => result = 0
            /\ seconds > 0 =>
                /\ result = RoundUpToQuantum(seconds)
                /\ result >= seconds
                /\ result % Sec(900) = 0
                /\ result - seconds < Sec(900)
            /\ (seconds > 0 /\ seconds % Sec(900) = 0) => result = seconds
            /\ seconds = Sec(60) => result = Sec(900)
            /\ seconds = Sec(900) => result = Sec(900)
            /\ seconds = Sec(960) => result = Sec(1800)
            /\ seconds = Sec(2640) => result = Sec(2700)
            /\ seconds = Sec(3600) => result = Sec(3600)

C11_Witness ==
    /\ cmd = "round_seconds_to_15min"
    /\ args = <<Sec(2640)>>
    /\ out = Some(Sec(2700))

\* C12: for every non-negative whole number of seconds get_formatted_duration
\* returns (seconds // 3600, (seconds % 3600) // 60), without rounding, and
\* the minutes are in 0..59.
C12_SplitsHoursMinutes ==
    (cmd = "get_formatted_duration" /\ args[1] >= 0 /\ IsWholeSeconds(args[1]))
        => LET seconds == args[1] \div TicksPerSecond
               hm == Get(out)
           IN  /\ hm = <<seconds \div 3600, (seconds % 3600) \div 60>>
               /\ hm[2] \in 0..59

C12_Witness ==
    /\ cmd = "get_formatted_duration"
    /\ args = <<Sec(3599)>>
    /\ out = Some(<<0, 59>>)

(***************************************************************************)
(* The report, stated from the store.  Folded is what the report has to    *)
(* account for: the history entries in order, then the running session at  *)
(* the clock the report read, billed as the smallest multiple of 900 s     *)
(* that covers the time elapsed.                                           *)
(***************************************************************************)
RECURSIVE SumSeq(_)
SumSeq(numbers) ==
    IF numbers = <<>> THEN 0 ELSE Head(numbers) + SumSeq(Tail(numbers))

Label(notes) ==
    IF notes = <<>> THEN NoDescription ELSE join(<<",", " ">>, notes)

Folded(f, clock) ==
    LET h == History(f)
        past == [i \in 1..Len(h) |->
                    [customer |-> h[i].customer, project |-> h[i].project,
                     seconds |-> h[i].duration_seconds,
                     label |-> Label(h[i].notes)]]
    IN  IF IsSome(Current(f))
        THEN LET c == Get(Current(f))
                 elapsed == Max(0, Get(clock) - c.start_timestamp)
             IN  Append(past,
                        [customer |-> c.customer, project |-> c.project,
                         seconds |-> RoundUpToQuantum(elapsed),
                         label |-> Label(c.notes)])
        ELSE past

OfGroup(entries, g) ==
    SelectSeq(entries,
              LAMBDA e : e.customer = g.customer /\ e.project = g.project)

SecondsOf(entries) == SumSeq([i \in 1..Len(entries) |-> entries[i].seconds])

LabelsOf(entries) == [i \in 1..Len(entries) |-> entries[i].label]

Range(list) == {list[i] : i \in 1..Len(list)}

Distinct(list) == Cardinality(Range(list)) = Len(list)

Reported == cmd' = "report"

ReportedGroups == Get(out').groups

\* C13: the report folds every history entry into the group of its
\* (customer, project): there is exactly one group per pair that occurs, the
\* group total is the sum of duration_seconds of the entries with that pair,
\* and within the group there is exactly one bucket per label (the notes
\* joined with ", ", or "No Description" for no notes) holding the sum of
\* duration_seconds of the entries with that pair and label.
C13_FoldsIntoGroupsAndBuckets ==
    [][Reported =>
        LET entries == Folded(file, Get(out').clock)
            groups == ReportedGroups
        IN  /\ Distinct([i \in 1..Len(groups) |->
                            <<groups[i].customer, groups[i].project>>])
            /\ {<<g.customer, g.project>> : g \in Range(groups)}
                   = {<<e.customer, e.project>> : e \in Range(entries)}
            /\ \A g \in Range(groups) :
                   LET mine == OfGroup(entries, g)
                   IN  /\ g.total_seconds = SecondsOf(mine)
                       /\ Distinct([j \in 1..Len(g.tasks) |->
                                       g.tasks[j].task_name])
                       /\ {t.task_name : t \in Range(g.tasks)}
                              = Range(LabelsOf(mine))
                       /\ \A t \in Range(g.tasks) :
                              t.seconds = SecondsOf(SelectSeq(mine,
                                  LAMBDA e : e.label = t.task_name))
    ]_vars

C13_Witness ==
    /\ cmd = "report"
    /\ Len(History(file)) >= 4
    /\ \E g \in Range(Get(out).groups) :
        /\ g.customer = <<"B">>
        /\ g.total_seconds = Sec(3600)
        /\ Len(g.tasks) = 2
        /\ g.tasks[1] = [task_name |-> <<"n">>, seconds |-> Sec(2700),
                         t_min |-> 45]
    /\ \E g \in Range(Get(out).groups) :
        \E t \in Range(g.tasks) : t.task_name = NoDescription

\* C14: the report is read-only: it leaves the day file as it found it (the
\* running session stays, the history is the same, nothing is saved) and
\* it remarks on the running timer exactly when a session is active.
C14_ReportReadsOnly ==
    [][Reported =>
        /\ file' = file
        /\ Current(file') = Current(file)
        /\ History(file') = History(file)
        /\ ~saved'
        /\ config' = config
        /\ Get(out').includes_running <=> IsSome(Current(file))
    ]_vars

C14_Witness ==
    /\ cmd = "report"
    /\ IsSome(Current(file))
    /\ Get(out).includes_running
    /\ ~saved

\* C15: on a Running store, for every clock reading (also one before the
\* start of the session), the report counts for the running session what
\* stop would commit for it at the same reading: the groups and the total
\* are those of the report of the store that stop leaves, whose new entry
\* has duration_seconds = round up to 900 s of max(0, now - start).
C15_RunningCountedAsStopped ==
    [][(Reported /\ IsSome(Current(file))) =>
        LET now == Get(Get(out').clock)
            stopped == cmd_stop(now, file).file
            committed == Last(History(stopped))
            after == cmd_report(now, stopped).report
            c == Get(Current(file))
        IN  /\ committed.duration_seconds
                   = RoundUpToQuantum(Max(0, now - c.start_timestamp))
            /\ ReportedGroups = after.groups
            /\ Get(out').total_day_seconds = after.total_day_seconds
            /\ \E g \in Range(ReportedGroups) :
                   /\ g.customer = c.customer /\ g.project = c.project
                   /\ g.total_seconds
                          = SecondsOf(OfGroup(Folded(stopped, None), g))
                   /\ \E t \in Range(g.tasks) :
                          /\ t.task_name = Label(c.notes)
                          /\ t.seconds >= committed.duration_seconds
    ]_vars

C15_Witness ==
    /\ cmd = "report"
    /\ IsSome(Current(file))
    /\ Get(Get(out).clock) < Get(Current(file)).start_timestamp
    /\ \E g \in Range(Get(out).groups) :
        g.customer = Get(Current(file)).customer /\ g.total_seconds = 0

\* C16: the groups of the report are in ascending order of
\* (customer.lower(), project.lower()): of two groups, the one with the
\* smaller lowercased pair comes first, whatever the order of the entries
\* in the history.
LowerPair(g) == <<lower(g.customer), lower(g.project)>>

C16_GroupsInLowercaseOrder ==
    [][Reported =>
        \A i, j \in 1..Len(ReportedGroups) :
            PairLess(LowerPair(ReportedGroups[i]), LowerPair(ReportedGroups[j]))
                => i < j
    ]_vars

C16_Witness ==
    /\ cmd = "report"
    /\ History(file) # <<>>
    /\ History(file)[1].customer = <<"B">>
    /\ Get(out).groups[1].customer = <<"a">>
    /\ \E i \in 2..Len(Get(out).groups) :
        Get(out).groups[i].customer = <<"B">>

\* C17: the grand total of the report is the sum of the totals of its
\* groups, printed as hours and minutes; for an empty store it is 00:00.
C17_GrandTotalIsSumOfGroups ==
    [][Reported =>
        LET rep == Get(out')
            sum == SumSeq([i \in 1..Len(rep.groups) |->
                              rep.groups[i].total_seconds])
        IN  /\ rep.total_day_seconds = sum
            /\ IsWholeSeconds(sum) =>
                   rep.total = <<(sum \div TicksPerSecond) \div 3600,
                                 ((sum \div TicksPerSecond) % 3600) \div 60>>
            /\ (History(file) = <<>> /\ ~IsSome(Current(file))) =>
                   rep.groups = <<>> /\ rep.total = <<0, 0>>
    ]_vars

C17_Witness ==
    /\ cmd = "report"
    /\ Len(Get(out).groups) >= 3
    /\ Get(out).total_day_seconds = Sec(6300)
    /\ Get(out).total = <<1, 45>>

\* C19: within a group the task labels are in the order in which they first
\* occur while the history, then the running session, is folded; a later
\* entry with a label already seen does not move it.
RECURSIVE FirstOccurrences(_)
FirstOccurrences(list) ==
    IF list = <<>> THEN <<>>
    ELSE LET before == FirstOccurrences(SubSeq(list, 1, Len(list) - 1))
         IN  IF Last(list) \in Range(before) THEN before
             ELSE Append(before, Last(list))

C19_LabelsInFirstOccurrenceOrder ==
    [][Reported =>
        LET entries == Folded(file, Get(out').clock)
        IN  \A g \in Range(ReportedGroups) :
                [j \in 1..Len(g.tasks) |-> g.tasks[j].task_name]
                    = FirstOccurrences(LabelsOf(OfGroup(entries, g)))
    ]_vars

C19_Witness ==
    /\ cmd = "report"
    /\ \E g \in Range(Get(out).groups) :
        /\ [j \in 1..Len(g.tasks) |-> g.tasks[j].task_name]
               = << <<"n">>, <<"m">> >>
        /\ LET labels == LabelsOf(OfGroup(Folded(file, Get(out).clock), g))
           IN  Len(labels) >= 3 /\ labels[1] = <<"n">> /\ labels[2] = <<"m">>
                   /\ Last(labels) = <<"n">>

\* C20: whatever the day file holds, no command fails in loading it: when
\* nothing is persisted the command works on the default store without a
\* warning, and when the file cannot be read it works on the default store
\* and a warning is printed.
C20_LoadFailureNeverPropagates ==
    [][cmd' \in {"start", "note", "stop", "report"} =>
        /\ msg' # "crash"
        /\ ~file.exists =>
               /\ ~load_json_warns(file)
               /\ load_json(file, DefaultData) = DefaultData
        /\ (file.exists /\ file.corrupt) =>
               /\ load_json_warns(file)
               /\ load_json(file, DefaultData) = DefaultData
    ]_vars

(***************************************************************************)
(* Shortcuts, stated from the configuration.                               *)
(***************************************************************************)
Shortcuts(cfgFile) == load_json(cfgFile, DefaultConfig).shortcuts

IsAdd(a) == Len(a) >= 4 /\ lower(a[1]) = <<"a", "d", "d">>

IsDelete(a) ==
    /\ Len(a) >= 2
    /\ lower(a[1]) \in {<<"d", "e", "l", "e", "t", "e">>,
                         <<"r", "e", "m", "o", "v", "e">>, <<"r", "m">>}

NamesShortcut(a) ==
    /\ a # <<>>
    /\ \/ a[1] = <<"-", "s">> /\ Len(a) >= 2
       \/ a[1] # <<>> /\ a[1][1] = "@"

NameGiven(a) ==
    IF a[1] = <<"-", "s">> THEN lower(a[2]) ELSE lower(SubSeq(a[1], 2, Len(a[1])))

ExtraGiven(a) ==
    LET words == IF a[1] = <<"-", "s">> THEN SubSeq(a, 3, Len(a))
                 ELSE SubSeq(a, 2, Len(a))
    IN  join(<<" ">>, words)

ExpectedNotes(note, extra) ==
    IF note # <<>> /\ extra # <<>> THEN <<note \o <<",", " ">> \o extra>>
    ELSE IF note # <<>> THEN <<note>>
    ELSE IF extra # <<>> THEN <<extra>>
    ELSE <<>>

ShortcutAdded ==
    (cmd' = "shortcut" /\ IsAdd(args')) =>
        LET name == lower(args'[2])
            words == SubSeq(args', 5, Len(args'))
        IN  /\ DOMAIN Shortcuts(config') = DOMAIN Shortcuts(config) \cup {name}
            /\ Shortcuts(config')[name]
                   = [customer |-> args'[3], project |-> args'[4],
                      note |-> join(<<" ">>, words)]
            /\ \A other \in DOMAIN Shortcuts(config) \ {name} :
                   Shortcuts(config')[other] = Shortcuts(config)[other]

ShortcutDeleted ==
    (cmd' = "shortcut" /\ IsDelete(args')) =>
        LET name == lower(args'[2])
        IN  IF name \in DOMAIN Shortcuts(config)
            THEN /\ DOMAIN Shortcuts(config') = DOMAIN Shortcuts(config) \ {name}
                 /\ \A other \in DOMAIN Shortcuts(config') :
                        Shortcuts(config')[other] = Shortcuts(config)[other]
            ELSE config' = config /\ msg' = "not_found"

StartedFromShortcut(shortcut) ==
    /\ msg' = "started"
    /\ IsSome(Current(file'))
    /\ Get(Current(file')).customer = shortcut.customer
    /\ Get(Current(file')).project = shortcut.project
    /\ Get(Current(file')).notes
           = ExpectedNotes(shortcut.note, ExtraGiven(args'))

UnknownShortcutRefused ==
    (cmd' = "start" /\ NamesShortcut(args')
        /\ NameGiven(args') \notin DOMAIN Shortcuts(config))
        => msg' = "not_found" /\ file' = file /\ ~saved'

\* C21 as stated: a start that names a shortcut, in any letter case, starts
\* a session for the customer and project that the latest add under that
\* lowercased name gave, whatever they are, with the shortcut's note and
\* the extra text as notes; add overwrites, delete removes, and a name that
\* is not defined is refused without a session.
C21_Original_ShortcutAlwaysStarts ==
    [][/\ ShortcutAdded
       /\ ShortcutDeleted
       /\ UnknownShortcutRefused
       /\ (cmd' = "start" /\ NamesShortcut(args')
              /\ NameGiven(args') \in DOMAIN Shortcuts(config))
             => StartedFromShortcut(Shortcuts(config)[NameGiven(args')])
    ]_vars

\* C21: shortcut lookup reflects the latest add or delete, case-insensitively.
\* add N c p [note] defines lower(N) as (c, p, note), replacing an earlier
\* definition and leaving the other names alone; delete N removes lower(N),
\* and for an unknown name leaves the configuration unchanged.  A start that
\* names a defined shortcut with non-empty customer and project starts a
\* session for them, with notes [note], [note, extra], [extra] or [] as the
\* note and the extra text are given; with an empty customer or project it
\* is cancelled and saves nothing; for an undefined name it reports 'not
\* found' and saves nothing.
C21_ShortcutLookupFollowsConfig ==
    [][/\ ShortcutAdded
       /\ ShortcutDeleted
       /\ UnknownShortcutRefused
       /\ (cmd' = "start" /\ NamesShortcut(args')
              /\ NameGiven(args') \in DOMAIN Shortcuts(config))
             => LET shortcut == Shortcuts(config)[NameGiven(args')]
                IN  IF shortcut.customer # <<>> /\ shortcut.project # <<>>
                    THEN StartedFromShortcut(shortcut)
                    ELSE msg' = "cancelled" /\ file' = file /\ ~saved'
    ]_vars

C21_Witness ==
    /\ cmd = "start"
    /\ args = << <<"@", "D">>, <<"e">> >>
    /\ msg = "started"
    /\ Shortcuts(config)[<<"d">>].customer = <<"x">>
    /\ Get(Current(file)).customer = <<"x">>
    /\ Get(Current(file)).project = <<"y">>
    /\ Get(Current(file)).notes = << <<"z", ",", " ", "e">> >>

(***************************************************************************)
(* reset.  In a reset step args is what was typed at the prompt.           *)
(***************************************************************************)
Answered(inp) == inp # <<>> /\ ~inp[1].interrupt

ResetCleared ==
    /\ msg' = "cleared"
    /\ Current(file') = None
    /\ History(file') = <<>>
    /\ config' = config

ResetRefused == file' = file /\ config' = config /\ msg' # "cleared"

\* C22 as stated: reset answered with 'y' clears the day, and any other
\* answer leaves the persisted store unchanged.
C22_Original_OnlyLowercaseYClears ==
    [][cmd' = "reset" =>
        IF Answered(args') /\ args'[1].line = <<"y">>
        THEN ResetCleared
        ELSE ResetRefused
    ]_vars

\* C22: reset answered with 'y' or 'Y' deletes the day's data, so that the
\* next load yields an Idle store with empty history; a running session is
\* discarded without being committed, and the reset succeeds also when no
\* day file exists.  Any other answer (also ' y' and 'yes'), and no answer
\* at all, leaves the persisted store unchanged.
C22_ResetClearsOnYes ==
    [][cmd' = "reset" =>
        IF Answered(args') /\ args'[1].line \in {<<"y">>, <<"Y">>}
        THEN ResetCleared
        ELSE ResetRefused
    ]_vars

C22_Witness ==
    /\ cmd = "reset"
    /\ steps = 1
    /\ config = SeedConfig
    /\ args = <<Line(<<"y">>)>>
    /\ msg = "cleared"
    /\ file = NoFile

(***************************************************************************)
(* Dispatch.  In a step of the program run from its command line, argv is  *)
(* the command line, cmd the handler that ran and args what it was given   *)
(* (for the report its copy mode, for reset the answer typed).             *)
(***************************************************************************)
CopiedToClipboard ==
    msg' = "report_copied" /\ "clipboard_text" \in DOMAIN Get(out')

\* C23: main dispatches on the lowercased first argument: no argument is an
\* interactive start; start starts with the remaining arguments; stop and
\* pause stop; report and status report; copy reports in copy mode; note,
\* add, reset, shortcut and shortcuts, help, -h and --help run their
\* commands; any other first argument starts with all the arguments.
C23_MainDispatches ==
    [][IF argv' = <<>> THEN cmd' = "start" /\ args' = <<>>
       ELSE LET first == lower(argv'[1])
                rest == SubSeq(argv', 2, Len(argv'))
            IN  CASE first = <<"s", "t", "a", "r", "t">> ->
                         cmd' = "start" /\ args' = rest
                  [] first \in {<<"s", "t", "o", "p">>,
                                <<"p", "a", "u", "s", "e">>} ->
                         cmd' = "stop"
                  [] first \in {<<"r", "e", "p", "o", "r", "t">>,
                                <<"s", "t", "a", "t", "u", "s">>} ->
                         /\ cmd' = "report" /\ args' = <<FALSE>>
                         /\ msg' # "crash" => ~CopiedToClipboard
                  [] first = <<"c", "o", "p", "y">> ->
                         /\ cmd' = "report" /\ args' = <<TRUE>>
                         /\ msg' # "crash" => CopiedToClipboard
                  [] first = <<"n", "o", "t", "e">> ->
                         cmd' = "note" /\ args' = rest
                  [] first = <<"a", "d", "d">> -> cmd' = "add"
                  [] first = <<"r", "e", "s", "e", "t">> -> cmd' = "reset"
                  [] first \in {<<"s", "h", "o", "r", "t", "c", "u", "t">>,
                                <<"s", "h", "o", "r", "t", "c", "u", "t", "s">>} ->
                         cmd' = "shortcut" /\ args' = rest
                  [] first \in {<<"h", "e", "l", "p">>, <<"-", "h">>,
                                <<"-", "-", "h", "e", "l", "p">>} ->
                         cmd' = "help" /\ file' = file /\ config' = config
                  [] OTHER -> cmd' = "start" /\ args' = argv'
    ]_vars

C23_Witness ==
    /\ argv = << <<"1">>, <<"1">> >>
    /\ cmd = "start"
    /\ args = << <<"1">>, <<"1">> >>
    /\ msg = "started"

(***************************************************************************)
(* A start that installs no session.                                       *)
(***************************************************************************)
StartRefused == cmd' = "start" /\ msg' \notin {"started", "crash"}

\* C24: a start that cannot resolve a customer and project (unknown shortcut,
\* -s without a name, empty or cancelled customer or project) saves nothing:
\* the day file is exactly as before the command, so a timer that was
\* running is still the current session with its original start_timestamp
\* and history has not grown, although the implicit stop already ran in
\* memory.
C24_RefusedStartSavesNothing ==
    [][StartRefused =>
          /\ ~saved'
          /\ tstart' = None
          /\ file' = file
          /\ Current(file') = Current(file)
          /\ Len(History(file')) = Len(History(file))
          /\ IsRunning(file) =>
                /\ IsSome(tstop')
                /\ IsRunning(file')
                /\ Get(Current(file')).start_timestamp =
                       Get(Current(file)).start_timestamp
    ]_vars

C24_Witness ==
    /\ cmd = "start"
    /\ msg = "not_found"
    /\ IsSome(tstop)
    /\ ~saved
    /\ IsRunning(file)
    /\ file = SeedRunning

(***************************************************************************)
(* The sessions of a day file, oldest first: the customer and project of   *)
(* each history entry, then those of the running session.                  *)
(***************************************************************************)
Pair(x) == <<x.customer, x.project>>

Sessions(f) ==
    [i \in 1..Len(History(f)) |-> Pair(History(f)[i])]
        \o (IF IsRunning(f) THEN <<Pair(Get(Current(f)))>> ELSE <<>>)

Created == cmd' = "start" /\ msg' = "started"

\* C25: no session is lost or duplicated.  A successful start adds the
\* session it creates at the end of the day's sessions (history entries in
\* order, then the running one) and no other start, note, stop or report
\* changes them; so from the empty store the number of sessions created
\* equals len(history) + (1 if Running else 0) and the i-th history entry
\* carries the customer and project of the i-th created session.
C25_SessionsAreTheCreatedOnes ==
    [][/\ Created =>
            Sessions(file') =
                Append(Sessions(file),
                       <<Get(Get(req').customer), Get(Get(req').project)>>)
       /\ ~Created => Sessions(file') = Sessions(file)
    ]_vars

C25_Witness ==
    /\ cmd = "start"
    /\ msg = "started"
    /\ steps = 2
    /\ Len(History(file)) = 1
    /\ IsRunning(file)
    /\ Sessions(file) = << <<<<"A">>, <<"p">>>>, <<<<"b">>, <<"q">>>> >>

(***************************************************************************)
(* Billing quantum.                                                        *)
(***************************************************************************)
IsBilled(seconds) == seconds >= 0 /\ seconds % Sec(900) = 0

\* C26: in every reachable state every history entry committed by stop
\* (explicit, or implicit in start) has raw_seconds >= 0, duration_seconds a
\* multiple of 900 s, duration_seconds >= raw_seconds and
\* duration_seconds - raw_seconds < 900 s; hence every group total and the
\* grand total of a report are non-negative multiples of 900 s.
C26_EntriesAreQuantised ==
    /\ \A i \in 1..Len(History(file)) :
          LET e == History(file)[i]
          IN  /\ e.raw_seconds >= 0
              /\ e.duration_seconds % Sec(900) = 0
              /\ e.duration_seconds >= e.raw_seconds
              /\ e.duration_seconds - e.raw_seconds < Sec(900)
    /\ (cmd = "report" /\ IsSome(out)) =>
          /\ \A i \in 1..Len(Get(out).groups) :
                IsBilled(Get(out).groups[i].total_seconds)
          /\ IsBilled(Get(out).total_day_seconds)

C26_Witness ==
    /\ cmd = "report"
    /\ IsSome(out)
    /\ Get(out).includes_running
    /\ Get(out).total_day_seconds = Sec(7200)
    /\ Len(History(file)) = 5
    /\ Last(History(file)).raw_seconds = 1
    /\ Last(History(file)).duration_seconds = Sec(900)

\* C27: in every report each group's total_seconds is the sum of the seconds
\* of its task buckets, and the grand total is the sum of duration_seconds
\* over all history entries plus the billed seconds of the running session,
\* if any: grouping counts no entry twice and drops none.
C27_TotalsAreConserved ==
    [][Reported =>
        LET rep == Get(out')
            h == History(file)
            running ==
                IF IsRunning(file)
                THEN RoundUpToQuantum(
                         Max(0, Get(rep.clock)
                                  - Get(Current(file)).start_timestamp))
                ELSE 0
        IN  /\ \A g \in Range(rep.groups) :
                  g.total_seconds =
                      SumSeq([j \in 1..Len(g.tasks) |-> g.tasks[j].seconds])
            /\ rep.total_day_seconds =
                  SumSeq([i \in 1..Len(h) |-> h[i].duration_seconds]) + running
    ]_vars

C27_Witness ==
    /\ cmd = "report"
    /\ IsSome(out)
    /\ Len(History(file)) = 4
    /\ IsRunning(file)
    /\ Get(out).clock = Some(Sec(3960))
    /\ Get(out).total_day_seconds = Sec(6300)
    /\ \E g \in Range(Get(out).groups) :
          /\ Len(g.tasks) = 2
          /\ g.total_seconds = Sec(3600)

(***************************************************************************)
(* The place in the day's entries (history, then the running session)      *)
(* where the pair of a group occurs first.                                 *)
(***************************************************************************)
FirstIndex(entries, g) ==
    CHOOSE i \in 1..Len(entries) :
        /\ Pair(entries[i]) = Pair(g)
        /\ \A k \in 1..(i - 1) : Pair(entries[k]) # Pair(g)

SameButForCase(g1, g2) == LowerPair(g1) = LowerPair(g2) /\ Pair(g1) # Pair(g2)

\* C28: grouping compares (customer, project) exactly while ordering compares
\* them lowercased: two pairs that differ only in letter case form two
\* separate groups with separate totals, and their relative order in the
\* report is the order of their first occurrence in history (stable sort).
C28_CaseVariantsAreSeparateGroups ==
    [][Reported =>
        LET entries == Folded(file, Get(out').clock)
            groups == ReportedGroups
        IN  /\ \A e \in Range(entries) :
                  Cardinality({i \in 1..Len(groups) :
                                  Pair(groups[i]) = Pair(e)}) = 1
            /\ \A g \in Range(groups) :
                  g.total_seconds = SecondsOf(OfGroup(entries, g))
            /\ \A i, j \in 1..Len(groups) :
                  (SameButForCase(groups[i], groups[j])
                     /\ FirstIndex(entries, groups[i])
                           < FirstIndex(entries, groups[j]))
                      => i < j
    ]_vars

C28_Witness ==
    /\ cmd = "report"
    /\ IsSome(out)
    /\ Len(History(file)) = 4
    /\ History(file)[2].customer = <<"a">>
    /\ IsRunning(file)
    /\ Get(Current(file)).customer = <<"A">>
    /\ Len(Get(out).groups) = 3
    /\ Pair(Get(out).groups[1]) = << <<"a">>, <<"p">> >>
    /\ Get(out).groups[1].total_seconds = Sec(900)
    /\ Pair(Get(out).groups[2]) = << <<"A">>, <<"p">> >>
    /\ Get(out).groups[2].total_seconds = Sec(1800)

(***************************************************************************)
(* A start that ends a running session and begins the next.  tstop is the  *)
(* first reading of the clock in the command and tstart the second.        *)
(***************************************************************************)
Restarted == cmd' = "start" /\ msg' = "started" /\ IsRunning(file)

\* C29: when start is issued on a Running store the clock is read to end the
\* old session before it is read to begin the new one; under a
\* non-decreasing clock the new session's start_timestamp is >= the old
\* session's start_timestamp + its committed raw_seconds, so consecutive
\* sessions never overlap in time.
C29_SessionsDoNotOverlap ==
    [][Restarted =>
        LET old == Get(Current(file))
            committed == Last(History(file'))
            new == Get(Current(file'))
        IN  /\ IsSome(tstop') /\ IsSome(tstart')
            /\ committed.raw_seconds =
                  Max(0, Get(tstop') - old.start_timestamp)
            /\ new.start_timestamp = Get(tstart')
            /\ (old.start_timestamp <= Get(tstop')
                   /\ Get(tstop') <= Get(tstart'))
                  => new.start_timestamp
                        >= old.start_timestamp + committed.raw_seconds
    ]_vars

C29_Witness ==
    /\ cmd = "start"
    /\ msg = "started"
    /\ tstop = Some(Sec(1900))
    /\ tstart = Some(Sec(2000))
    /\ Len(History(file)) = 2
    /\ Last(History(file)).raw_seconds = Sec(840)
    /\ Get(Current(file)).start_timestamp = Sec(2000)

====
